---- MODULE Spec2Model ----
(***************************************************************************)
(* CaseFlow import pipeline: the import job ledger and case store          *)
(* (backend ImportService), the client-side submission Coordinator         *)
(* (ValidatePage.handleSubmit + importStore) and the column auto-mapper.   *)
(***************************************************************************)
EXTENDS Integers, Sequences, FiniteSets, TLC

\* --------------------------------------------------------------- bounds
\* jobs the store may hold
MaxJobs == 2
\* concurrent store requests (processBatch / resumeImport in progress)
MaxReq == 2
\* API calls the callers issue in one behaviour
MaxCalls == 4
\* database faults (a create that throws for another reason than uniqueness)
MaxFaults == 1
\* largest totalRows of a job
MaxTotal == 2
\* largest startIndex a caller sends
MaxStart == 1
\* rows of the uploaded dataset
MaxRows == 3
\* rows per chunk: batchSize of handleSubmit, 100 in the source, scaled down
\* so that a dataset of MaxRows rows needs more than one chunk
BatchSize == 2
\* transport failures of the client's calls
MaxNetFaults == 1
\* headers of the file handed to autoMapColumns
MaxHeaders == 3

\* ------------------------------------------------------ store: the rows
\* A row of BatchImportDto.rows.  Values are concrete strings; the empty
\* string is the falsy value of the source.
DtoRow(c, n, d, g, p) ==
    [caseId |-> c, applicantName |-> n, dob |-> d, category |-> g, priority |-> p]

RowGood1 == DtoRow("C-1", "Ann", "1990-01-01", "TAX", "HIGH")
RowGood2 == DtoRow("C-2", "Bob", "1985-05-05", "PERMIT", "")
RowBadCat1 == DtoRow("C-1", "Ann", "1990-01-01", "tax", "LOW")
RowNoId == DtoRow("", "Cy", "1990-01-01", "TAX", "LOW")
RowBadDob2 == DtoRow("C-2", "Bob", "not-a-date", "LICENSE", "urgent")

\* The chunks the callers send.
Chunks ==
    { <<RowGood1>>, <<RowNoId, RowGood1>>, <<RowBadCat1, RowGood2>>, <<RowBadDob2>> }

\* new Date(s): isNaN(getTime()) is false exactly for the parseable strings.
DateParses(s) == s \in {"1990-01-01", "1985-05-05", "2099-01-01", "1899-12-31"}

Category == {"TAX", "LICENSE", "PERMIT"}
Priority == {"LOW", "MEDIUM", "HIGH"}

\* "Default priority to LOW if not provided or invalid".
StorePriority(row) == IF row.priority \in Priority THEN row.priority ELSE "LOW"

\* The try block of the validation loop: "" when the row is accepted,
\* otherwise the message of the Error thrown.
StoreRowError(row) ==
    IF row.caseId = "" \/ row.applicantName = "" \/ row.dob = "" \/ row.category = ""
    THEN "Missing required fields"
    ELSE IF ~DateParses(row.dob)
    THEN "Invalid date format for dob"
    ELSE IF row.category \notin Category
    THEN "Invalid category"
    ELSE ""

\* ------------------------------------------------------------ variables
VARIABLES
    jobs,      \* importJob table: sequence of ledgers, the id is the position
    cases,     \* case table: sequence of [caseId, importJobId]
    audit,     \* auditLog table: sequence of [caseId, importJobId]
    req,       \* store requests in progress, by slot
    resp,      \* the response of the last finished API call
    calls,     \* number of API calls issued
    faults,    \* number of database faults injected
    ghost,     \* per job: what the accepted commits add up to (history)
    client,    \* importStore: mappedData, rowStatuses, validationErrors, jobId, ...
    handler,   \* the activations of ValidatePage.handleSubmit, one per slot
    netFaults, \* number of transport failures injected
    mapper,    \* column mapping step: the headers and the ColumnMapping list
    scored     \* a call of similarity: the two strings and the score returned

storeVars == <<jobs, cases, audit, req, resp, calls, faults, ghost>>
clientVars == <<client, handler, netFaults>>
vars == <<jobs, cases, audit, req, resp, calls, faults, ghost, client, handler,
          netFaults, mapper, scored>>

mapVars == <<mapper, scored>>

Slots == 1..MaxReq
JobIds == 1..MaxJobs
\* job ids a caller may name: the known ones and one that never exists
CallIds == 1..(MaxJobs + 1)

IdleReq == [op |-> "none"]
\* The slot a new request takes: the free one with the least number (the
\* slots are interchangeable).
FreeSlot(s) == req[s].op = "none" /\ \A t \in 1..(s - 1) : req[t].op # "none"
NoResp == [op |-> "none", seq |-> 0]

\* ImportStatus.PENDING and the column defaults of a created job.
DefaultLastProcessedIndex == 0
NewJob(total) ==
    [status |-> "PENDING", totalRows |-> total, processedRows |-> 0,
     successCount |-> 0, failedCount |-> 0,
     lastProcessedIndex |-> DefaultLastProcessedIndex, errorData |-> <<>>]

NewGhost ==
    [commits |-> 0, rows |-> 0, success |-> 0, failed |-> 0, last |-> 0,
     lastOp |-> "create", indexes |-> {}, twice |-> FALSE, gap |-> FALSE]

\* importStore.initialState, with `data` as the mapped rows; the row ids are
\* the positions in the file.  `timers` holds the pending timeout callbacks of
\* the validation effect, each with the mappedData of the render that set it;
\* `edits` counts the user's edits.
InitialClient(data) ==
    [mappedData |-> data,
     rowStatuses |-> [i \in 1..Len(data) |-> "pending"],
     validationErrors |-> <<>>,
     validationDue |-> Len(data) > 0,
     timers |-> IF Len(data) > 0 THEN <<data>> ELSE <<>>,
     edits |-> 0,
     jobId |-> 0, isSubmitting |-> FALSE,
     progress |-> 0, successCount |-> 0, failedCount |-> 0]

IdleHandler == [pc |-> "idle"]

StoreInit ==
    /\ jobs = <<>>
    /\ cases = <<>>
    /\ audit = <<>>
    /\ req = [s \in Slots |-> IdleReq]
    /\ resp = NoResp
    /\ calls = 0
    /\ faults = 0
    /\ ghost = <<>>

\* No file has been parsed yet.
NoMapper == [headers |-> <<>>, mappings |-> <<>>, mapped |-> FALSE]

\* No call of similarity.
NoScore == [called |-> FALSE]

\* The store before any call, no client session.
Init ==
    /\ StoreInit
    /\ client = InitialClient(<<>>)
    /\ handler = [s \in Slots |-> IdleHandler]
    /\ netFaults = 0
    /\ mapper = NoMapper
    /\ scored = NoScore

Exists(j) == j \in 1..Len(jobs)

\* ---------------------------------------------------------- startImport
startImport(total) ==
    /\ Len(jobs) < MaxJobs
    /\ jobs' = Append(jobs, NewJob(total))
    /\ ghost' = Append(ghost, NewGhost)
    /\ resp' = [seq |-> resp.seq + 1, op |-> "start", job |-> Len(jobs) + 1, outcome |-> "ok"]
    /\ calls' = calls + 1
    /\ UNCHANGED <<cases, audit, req, faults>>

\* --------------------------------------------------------- processBatch
\* Mutant of BatchGuard: the check of the terminal statuses is missing.
BatchGuardNoTerminalCheck(js, jid) ==
    IF jid \notin 1..Len(js) THEN "NotFound" ELSE "ok"

\* The guards in front of any write: the outcome of the call so far.
BatchGuard(js, jid) ==
    IF jid \notin 1..Len(js) THEN "NotFound"
    ELSE IF js[jid].status \in {"COMPLETED", "FAILED"} THEN "InvalidState"
    ELSE "ok"

\* "Update to processing if pending".
BeginStatus(job) == IF job.status = "PENDING" THEN "PROCESSING" ELSE job.status

Positions(rows) == [i \in 1..Len(rows) |-> i]

\* caseCreations, as the positions (1-based) of the rows pushed, in order.
Creations(rows) ==
    SelectSeq(Positions(rows), LAMBDA i : StoreRowError(rows[i]) = "")

ErrCaseId(row) == IF row.caseId = "" THEN "unknown" ELSE row.caseId

RECURSIVE ValidationErrors(_, _, _)
\* result.errors after the validation loop, from position i on.
ValidationErrors(rows, start, i) ==
    IF i > Len(rows) THEN <<>>
    ELSE IF StoreRowError(rows[i]) = ""
    THEN ValidationErrors(rows, start, i + 1)
    ELSE <<[index |-> start + (i - 1), caseId |-> ErrCaseId(rows[i]),
            error |-> StoreRowError(rows[i])]>>
         \o ValidationErrors(rows, start, i + 1)

\* Absolute indexes of the rows the validation loop counted failed (history).
ValidationRejected(rows, start) ==
    {start + (i - 1) : i \in {p \in 1..Len(rows) : StoreRowError(rows[p]) # ""}}

\* lines 61-144: read the job, guard, mark processing, validate the rows.
BatchBegin(s, jid, rows, start) ==
    /\ req[s].op = "none"
    /\ calls' = calls + 1
    /\ IF BatchGuard(jobs, jid) # "ok"
       THEN /\ resp' = [seq |-> resp.seq + 1, op |-> "batch", job |-> jid, outcome |-> BatchGuard(jobs, jid)]
            /\ UNCHANGED <<jobs, req>>
       ELSE /\ jobs' = [jobs EXCEPT ![jid].status = BeginStatus(jobs[jid])]
            /\ req' = [req EXCEPT ![s] =
                 [op |-> "batch", job |-> jid, rows |-> rows, startIndex |-> start,
                  snap |-> jobs[jid], k |-> 0,
                  success |-> 0,
                  failed |-> Len(ValidationErrors(rows, start, 1)),
                  errors |-> ValidationErrors(rows, start, 1),
                  rejected |-> ValidationRejected(rows, start),
                  unique |-> {}, created |-> {},
                  storedAtBegin |-> {cases[n].caseId : n \in 1..Len(cases)}]]
            /\ UNCHANGED resp
    /\ UNCHANGED <<cases, audit, faults, ghost>>

CaseIdStored(cs, c) == \E n \in 1..Len(cs) : cs[n].caseId = c

\* The index the catch block of the create loop reports for the k-th
\* (0-based) entry of caseCreations, which is row `pos` (1-based) of the chunk.
CreateErrIndex(start, k, pos) == start + k

\* Mutant of CreateErrMessage: the thrown message is recorded as it is.
CreateErrMessageUnclassified(thrown) == thrown

\* The message the catch block records for a thrown error.
CreateErrMessage(thrown) ==
    IF thrown = "Unique constraint" THEN "Duplicate case ID" ELSE thrown

\* FailCreate if a failed create ended the create loop, the entries not yet
\* tried counted failed as by the outer catch block.
FailCreateAborting(r, thrown) ==
    [r EXCEPT !.k = Len(Creations(r.rows)),
              !.failed = r.failed + (Len(Creations(r.rows)) - r.k),
              !.errors = Append(r.errors,
                  [index |-> CreateErrIndex(r.startIndex, r.k, Creations(r.rows)[r.k + 1]),
                   caseId |-> r.rows[Creations(r.rows)[r.k + 1]].caseId,
                   error |-> CreateErrMessage(thrown)]),
              !.rejected = r.rejected \cup
                  {r.startIndex + Creations(r.rows)[r.k + 1] - 1}]

FailCreate(r, thrown) ==
    [r EXCEPT !.k = r.k + 1,
              !.failed = r.failed + 1,
              !.errors = Append(r.errors,
                  [index |-> CreateErrIndex(r.startIndex, r.k, Creations(r.rows)[r.k + 1]),
                   caseId |-> r.rows[Creations(r.rows)[r.k + 1]].caseId,
                   error |-> CreateErrMessage(thrown)]),
              !.rejected = r.rejected \cup
                  {r.startIndex + Creations(r.rows)[r.k + 1] - 1},
              !.unique = IF thrown = "Unique constraint"
                         THEN r.unique \cup {r.startIndex + Creations(r.rows)[r.k + 1] - 1}
                         ELSE r.unique]

\* case.create under the unique constraint on caseId: the table afterwards.
CaseCreate(cs, row, jid) ==
    IF CaseIdStored(cs, row.caseId) THEN cs
    ELSE Append(cs, [caseId |-> row.caseId, importJobId |-> jid,
                     priority |-> StorePriority(row)])

\* lines 150-177: one iteration of the create loop.
BatchCreate(s) ==
    /\ req[s].op = "batch"
    /\ req[s].k < Len(Creations(req[s].rows))
    /\ LET r == req[s]
           pos == Creations(r.rows)[r.k + 1]
           c == r.rows[pos].caseId
       IN \/ \* the unique constraint fails
             /\ CaseCreate(cases, r.rows[pos], r.job) = cases
             /\ req' = [req EXCEPT ![s] = FailCreate(r, "Unique constraint")]
             /\ UNCHANGED <<cases, audit, faults>>
          \/ \* case and audit log entry are written
             /\ CaseCreate(cases, r.rows[pos], r.job) # cases
             /\ cases' = CaseCreate(cases, r.rows[pos], r.job)
             /\ audit' = Append(audit, [caseId |-> c, importJobId |-> r.job])
             /\ req' = [req EXCEPT ![s] =
                   [r EXCEPT !.k = r.k + 1, !.success = r.success + 1,
                             !.created = r.created \cup {r.startIndex + pos - 1}]]
             /\ UNCHANGED faults
          \/ \* case.create throws for another reason
             /\ faults < MaxFaults
             /\ faults' = faults + 1
             /\ req' = [req EXCEPT ![s] = FailCreate(r, "Database error")]
             /\ UNCHANGED <<cases, audit>>
          \/ \* the case is written, auditLog.create throws
             /\ CaseCreate(cases, r.rows[pos], r.job) # cases
             /\ faults < MaxFaults
             /\ faults' = faults + 1
             /\ cases' = CaseCreate(cases, r.rows[pos], r.job)
             /\ req' = [req EXCEPT ![s] =
                   [FailCreate(r, "Database error") EXCEPT
                       !.created = r.created \cup {r.startIndex + pos - 1}]]
             /\ UNCHANGED audit
    /\ UNCHANGED <<jobs, resp, calls, ghost>>

\* CommitLedger if processedRows counted the rows that reached the create
\* loop only.
CommitLedgerCountingCreations(cur, r) ==
    [cur EXCEPT
        !.processedRows = r.snap.processedRows + Len(Creations(r.rows)),
        !.successCount = r.snap.successCount + r.success,
        !.failedCount = r.snap.failedCount + r.failed,
        !.lastProcessedIndex = r.startIndex + Len(r.rows) - 1,
        !.status = IF r.snap.processedRows + Len(r.rows) >= r.snap.totalRows
                   THEN "COMPLETED" ELSE "PROCESSING",
        !.errorData = IF Len(r.errors) > 0 THEN r.snap.errorData \o r.errors
                      ELSE r.snap.errorData]

\* lines 186-203: the ledger fields the final update writes, computed from
\* the job as read at the start of the call.
CommitLedger(cur, r) ==
    [cur EXCEPT
        !.processedRows = r.snap.processedRows + Len(r.rows),
        !.successCount = r.snap.successCount + r.success,
        !.failedCount = r.snap.failedCount + r.failed,
        !.lastProcessedIndex = r.startIndex + Len(r.rows) - 1,
        !.status = IF r.snap.processedRows + Len(r.rows) >= r.snap.totalRows
                   THEN "COMPLETED" ELSE "PROCESSING",
        !.errorData = IF Len(r.errors) > 0 THEN r.snap.errorData \o r.errors
                      ELSE r.snap.errorData]

ChunkIndexes(r) == r.startIndex..(r.startIndex + Len(r.rows) - 1)

CommitGhost(g, cur, r) ==
    [g EXCEPT
        !.commits = g.commits + 1,
        !.rows = g.rows + Len(r.rows),
        !.success = g.success + r.success,
        !.failed = g.failed + r.failed,
        !.last = r.startIndex + Len(r.rows) - 1,
        !.lastOp = "commit",
        !.indexes = g.indexes \cup ChunkIndexes(r),
        !.twice = g.twice \/ (g.indexes \cap ChunkIndexes(r) # {}),
        !.gap = g.gap \/ (g.commits > 0 /\ r.startIndex # cur.lastProcessedIndex + 1)]

BatchCommit(s) ==
    /\ req[s].op = "batch"
    /\ req[s].k = Len(Creations(req[s].rows))
    /\ LET r == req[s] IN
       /\ jobs' = [jobs EXCEPT ![r.job] = CommitLedger(jobs[r.job], r)]
       /\ ghost' = [ghost EXCEPT ![r.job] = CommitGhost(ghost[r.job], jobs[r.job], r)]
       /\ resp' = [seq |-> resp.seq + 1, op |-> "batch", job |-> r.job, outcome |-> "ok",
                   success |-> r.success, failed |-> r.failed, errors |-> r.errors,
                   startIndex |-> r.startIndex, rows |-> r.rows,
                   rejected |-> r.rejected, unique |-> r.unique,
                   created |-> r.created, storedAtBegin |-> r.storedAtBegin]
    /\ req' = [req EXCEPT ![s] = IdleReq]
    /\ UNCHANGED <<cases, audit, calls, faults>>

\* ------------------------------------------------- pauseImport / resume
\* lines 234-247: the outcome of pauseImport.
PauseGuard(js, jid) == IF jid \notin 1..Len(js) THEN "NotFound" ELSE "ok"

\* pauseImport if its update also reset the progress of the job.
pauseImportResetting(jid) ==
    /\ calls' = calls + 1
    /\ resp' = [seq |-> resp.seq + 1, op |-> "pause", job |-> jid, outcome |-> PauseGuard(jobs, jid)]
    /\ IF PauseGuard(jobs, jid) = "ok"
       THEN /\ jobs' = [jobs EXCEPT ![jid].status = "PAUSED", ![jid].processedRows = 0]
            /\ ghost' = [ghost EXCEPT ![jid].lastOp = "pause"]
       ELSE UNCHANGED <<jobs, ghost>>
    /\ UNCHANGED <<cases, audit, req, faults>>

pauseImport(jid) ==
    /\ calls' = calls + 1
    /\ resp' = [seq |-> resp.seq + 1, op |-> "pause", job |-> jid, outcome |-> PauseGuard(jobs, jid)]
    /\ IF PauseGuard(jobs, jid) = "ok"
       THEN /\ jobs' = [jobs EXCEPT ![jid].status = "PAUSED"]
            /\ ghost' = [ghost EXCEPT ![jid].lastOp = "pause"]
       ELSE UNCHANGED <<jobs, ghost>>
    /\ UNCHANGED <<cases, audit, req, faults>>

\* lines 250-258: the outcome of resumeImport's read.
ResumeGuard(js, jid) ==
    IF jid \notin 1..Len(js) THEN "NotFound"
    ELSE IF js[jid].status # "PAUSED" THEN "InvalidState"
    ELSE "ok"

ResumeBegin(s, jid) ==
    /\ req[s].op = "none"
    /\ calls' = calls + 1
    /\ IF ResumeGuard(jobs, jid) # "ok"
       THEN /\ resp' = [seq |-> resp.seq + 1, op |-> "resume", job |-> jid, outcome |-> ResumeGuard(jobs, jid)]
            /\ UNCHANGED req
       ELSE /\ req' = [req EXCEPT ![s] = [op |-> "resume", job |-> jid, snap |-> jobs[jid]]]
            /\ UNCHANGED resp
    /\ UNCHANGED <<jobs, cases, audit, faults, ghost>>

\* lines 260-269: the update and the reply, from the job as read.
ResumeWrite(s) ==
    /\ req[s].op = "resume"
    /\ jobs' = [jobs EXCEPT ![req[s].job].status = "PROCESSING"]
    /\ ghost' = [ghost EXCEPT ![req[s].job].lastOp = "resume"]
    /\ resp' = [seq |-> resp.seq + 1, op |-> "resume", job |-> req[s].job, outcome |-> "ok",
                lastProcessedIndex |-> req[s].snap.lastProcessedIndex,
                remainingRows |-> req[s].snap.totalRows - req[s].snap.processedRows]
    /\ req' = [req EXCEPT ![s] = IdleReq]
    /\ UNCHANGED <<cases, audit, calls, faults>>

\* ------------------------------------------------- submitBatch (client)
\* importStore.submitBatch: the status given to row i (0-based) of a chunk
\* from the errors of the store's reply.
RowStatusAfter(errors, start, i) ==
    IF \E n \in 1..Len(errors) : errors[n].index = start + i
    THEN "failed" ELSE "success"

\* ------------------------------------------------------------ strings
\* str.charAt(i - 1)
Char(str, i) == SubSeq(str, i, i)

UpperCase == "ABCDEFGHIJKLMNOPQRSTUVWXYZ"
LowerCase == "abcdefghijklmnopqrstuvwxyz"
Digits == "0123456789"

IndexIn(alphabet, c) ==
    IF \E k \in 1..Len(alphabet) : Char(alphabet, k) = c
    THEN CHOOSE k \in 1..Len(alphabet) : Char(alphabet, k) = c
    ELSE 0

\* --------------------------------------------------- client: validation
\* A CaseRow of the client session.
CaseRowOf(c, n, d, e, ph, g, p) ==
    [case_id |-> c, applicant_name |-> n, dob |-> d, email |-> e, phone |-> ph,
     category |-> g, priority |-> p]

\* A CaseRow without email and phone, as parseCSV builds it from a file
\* without those columns.
CaseRow(c, n, d, g, p) == CaseRowOf(c, n, d, "", "", g, p)

\* The value of an optional field the row does not have.
Undefined == "<undefined>"

CRowAnn == CaseRow("C-1", "Ann", "1990-01-01", "TAX", "HIGH")
CRowBob == CaseRow("C-2", "Bob", "1985-05-05", "PERMIT", "LOW")
CRowTax == CaseRow("C-3", "Cy", "1990-01-01", "tax", "LOW")

RowPool == {CRowAnn, CRowBob, CRowTax}

RECURSIVE SeqsUpTo(_, _)
\* The sequences over S of length 1..n.
SeqsUpTo(S, n) ==
    IF n = 0 THEN {}
    ELSE LET shorter == SeqsUpTo(S, n - 1)
         IN {<<x>> : x \in S} \cup shorter
            \cup {Append(q, x) : q \in shorter, x \in S}

Datasets == SeqsUpTo(RowPool, MaxRows)

\* The refine of caseSchema.dob: the date parses and its year is in
\* [1900, current year].
DobInRange(s) == s \in {"1990-01-01", "1985-05-05"}

\* The characters the regular expressions' \s matches, of those in use.
WhiteSpace == {" ", "\t"}

RECURSIVE RemoveFrom(_, _, _, _)
\* The characters lo..hi of str without those of chars (the range is halved
\* so that the evaluation stays shallow).
RemoveFrom(str, chars, lo, hi) ==
    IF lo > hi THEN ""
    ELSE IF lo = hi THEN (IF Char(str, lo) \in chars THEN "" ELSE Char(str, lo))
    ELSE RemoveFrom(str, chars, lo, (lo + hi) \div 2)
         \o RemoveFrom(str, chars, (lo + hi) \div 2 + 1, hi)

\* str.replace(/[chars]/g, '')
Remove(str, chars) == RemoveFrom(str, chars, 1, Len(str))

IsDigit(c) == IndexIn(Digits, c) > 0

AllDigits(str) == \A k \in 1..Len(str) : IsDigit(Char(str, k))

\* /^[^\s@]+@[^\s@]+\.[^\s@]+$/.test(email)
EmailMatches(email) ==
    \E at \in 2..Len(email), dot \in 4..(Len(email) - 1) :
        /\ at + 1 < dot
        /\ Char(email, at) = "@"
        /\ Char(email, dot) = "."
        /\ \A k \in 1..Len(email) :
              k # at => Char(email, k) \notin WhiteSpace \cup {"@"}

\* phone.replace(/[\s()-]/g, '')
CleanPhone(phone) == Remove(phone, WhiteSpace \cup {"(", ")", "-"})

\* /^\+?[1-9]\d{1,14}$/.test(cleaned)
PhoneMatches(cleaned) ==
    LET body == IF Len(cleaned) > 0 /\ Char(cleaned, 1) = "+"
                THEN SubSeq(cleaned, 2, Len(cleaned)) ELSE cleaned
    IN /\ Len(body) \in 2..15
       /\ AllDigits(body)
       /\ Char(body, 1) # "0"

RECURSIVE ToUpperFrom(_, _, _)
ToUpperFrom(str, lo, hi) ==
    IF lo > hi THEN ""
    ELSE IF lo = hi
    THEN (IF IndexIn(LowerCase, Char(str, lo)) > 0
          THEN Char(UpperCase, IndexIn(LowerCase, Char(str, lo)))
          ELSE Char(str, lo))
    ELSE ToUpperFrom(str, lo, (lo + hi) \div 2)
         \o ToUpperFrom(str, (lo + hi) \div 2 + 1, hi)

\* value.toUpperCase()
ToUpperCase(str) == ToUpperFrom(str, 1, Len(str))

RECURSIVE CollapseFrom(_, _, _)
\* value.replace(/\s+/g, ' ') on the characters lo..hi: a run of whitespace
\* becomes one space.
CollapseFrom(str, lo, hi) ==
    IF lo > hi THEN ""
    ELSE IF lo = hi
    THEN (IF Char(str, lo) \in WhiteSpace
          THEN (IF lo > 1 /\ Char(str, lo - 1) \in WhiteSpace THEN "" ELSE " ")
          ELSE Char(str, lo))
    ELSE CollapseFrom(str, lo, (lo + hi) \div 2)
         \o CollapseFrom(str, (lo + hi) \div 2 + 1, hi)

\* String.prototype.trim on a string whose whitespace runs are single spaces.
Trim(str) ==
    LET from == IF Len(str) > 0 /\ Char(str, 1) = " " THEN 2 ELSE 1
        to == IF Len(str) > 0 /\ Char(str, Len(str)) = " " THEN Len(str) - 1 ELSE Len(str)
    IN IF from > to THEN "" ELSE SubSeq(str, from, to)

\* value.includes('  ')
HasDoubleSpace(str) ==
    \E k \in 1..(Len(str) - 1) : Char(str, k) = " " /\ Char(str, k + 1) = " "

\* getSuggestion(field, value); Undefined when it returns undefined.
getSuggestion(field, value) ==
    IF value = Undefined THEN Undefined
    ELSE IF field = "applicant_name" /\ HasDoubleSpace(value)
    THEN Trim(CollapseFrom(value, 1, Len(value)))
    ELSE IF field = "phone" /\ Len(CleanPhone(value)) = 10 /\ AllDigits(CleanPhone(value))
    THEN "+91" \o CleanPhone(value)
    ELSE IF field = "category" /\ ToUpperCase(value) \in Category
    THEN ToUpperCase(value)
    ELSE IF field = "priority" /\ ToUpperCase(value) \in Priority
    THEN ToUpperCase(value)
    ELSE IF field = "priority" /\ value = ""
    THEN "LOW"
    ELSE Undefined

\* A ValidationError.
Issue(f, m, v, s) == [field |-> f, message |-> m, value |-> v, suggestion |-> s]

\* The ValidationError validateRow pushes for an issue of zod on field f.
FieldIssue(row, f, m) == Issue(f, m, row[f], getSuggestion(f, row[f]))

\* validateRow: the issues of caseSchema.parse(row), in the order of the
\* schema's fields.
validateRow(row) ==
    (IF Len(row.case_id) < 1
     THEN <<FieldIssue(row, "case_id", "Case ID is required")>> ELSE <<>>)
    \o (IF Len(row.applicant_name) < 1
        THEN <<FieldIssue(row, "applicant_name", "Applicant name is required")>>
        ELSE <<>>)
    \o (IF Len(row.dob) < 1
        THEN <<FieldIssue(row, "dob", "Date of birth is required")>> ELSE <<>>)
    \o (IF ~DobInRange(row.dob)
        THEN <<FieldIssue(row, "dob", "Invalid date (must be between 1900 and today)")>>
        ELSE <<>>)
    \o (IF row.email \notin {"", Undefined} /\ ~EmailMatches(row.email)
        THEN <<FieldIssue(row, "email", "Invalid email format")>> ELSE <<>>)
    \o (IF row.phone \notin {"", Undefined} /\ ~PhoneMatches(CleanPhone(row.phone))
        THEN <<FieldIssue(row, "phone", "Invalid phone format (use E.164)")>>
        ELSE <<>>)
    \o (IF row.category \notin Category
        THEN <<FieldIssue(row, "category", "Category must be TAX, LICENSE, or PERMIT")>>
        ELSE <<>>)
    \o (IF row.priority # Undefined /\ row.priority \notin Priority
        THEN <<FieldIssue(row, "priority", "Invalid enum value")>> ELSE <<>>)

\* seenCaseIds if the row's own identifier were added before the check.
SeenIncludingRow(rows, i) == {rows[k].case_id : k \in {m \in 1..i : rows[m].case_id # ""}}

\* seenCaseIds when the loop of validateAllRows reaches row i.
SeenBefore(rows, i) == {rows[k].case_id : k \in {m \in 1..(i - 1) : rows[m].case_id # ""}}

\* The errors validateAllRows collects for row i.
RowErrors(rows, i) ==
    validateRow(rows[i])
    \o (IF rows[i].case_id # "" /\ rows[i].case_id \in SeenBefore(rows, i)
        THEN <<Issue("case_id", "Duplicate case ID in file", rows[i].case_id, Undefined)>>
        ELSE <<>>)

\* validateAllRows: the map from row id to errors; rows without errors have
\* no entry.
validateAllRows(rows) ==
    [i \in {k \in 1..Len(rows) : Len(RowErrors(rows, k)) > 0} |-> RowErrors(rows, i)]

\* setValidationErrors: every row of mappedData becomes valid or invalid.
setValidationErrors(c, errors) ==
    [c EXCEPT !.validationErrors = errors,
              !.rowStatuses = [i \in 1..Len(c.mappedData) |->
                                  IF i \in DOMAIN errors /\ Len(errors[i]) > 0
                                  THEN "invalid" ELSE "valid"]]

\* The timeout callback of the validation effect of ValidatePage: the oldest
\* pending one validates the mappedData of its render.
RunValidation ==
    /\ client.validationDue
    /\ client' = [setValidationErrors(client, validateAllRows(Head(client.timers)))
                    EXCEPT !.timers = Tail(client.timers),
                           !.validationDue = Len(client.timers) > 1]
    /\ UNCHANGED <<storeVars, handler, netFaults, mapVars>>

\* ------------------------------------------------------ client: edits
\* The number of edits of a session.
MaxEdits == 2

\* The cells the user types into the grid, as <<field, value>>.
CellEdits == {<<"category", "tax">>, <<"category", "TAX">>, <<"case_id", "C-1">>}

\* importStore.updateCell: the mapped rows afterwards.
updateCell(data, rowId, field, value) ==
    [i \in 1..Len(data) |->
        IF i = rowId THEN [data[i] EXCEPT ![field] = value] ELSE data[i]]

\* fixHelpers.normalizePhone
normalizePhone(value) ==
    LET cleaned == CleanPhone(value)
    IN IF Len(cleaned) = 10 /\ AllDigits(cleaned) THEN "+91" \o cleaned
       ELSE IF Len(cleaned) >= 11 /\ AllDigits(cleaned) THEN "+" \o cleaned
       ELSE value

\* fixHelpers, for the quick fixes of the toolbar that are modelled.
fixHelpers(fixType, value) ==
    CASE fixType = "trimWhitespace" -> Trim(CollapseFrom(value, 1, Len(value)))
      [] fixType = "normalizePhone" -> normalizePhone(value)
      [] fixType = "defaultPriority" -> IF value = "" THEN "LOW" ELSE ToUpperCase(value)

\* The buttons of the fix toolbar, as <<fixType, field>>.
QuickFixes ==
    {<<"trimWhitespace", "applicant_name">>, <<"normalizePhone", "phone">>,
     <<"defaultPriority", "priority">>}

\* importStore.applyFix on every row, as handleApplyFix calls it: a value
\* that is not a string (an absent field) is left alone.
applyFix(data, field, fixType) ==
    [i \in 1..Len(data) |->
        IF data[i][field] # Undefined
        THEN [data[i] EXCEPT ![field] = fixHelpers(fixType, data[i][field])]
        ELSE data[i]]

\* A change of mappedData: the store is set, the page renders and the
\* validation effect sets its timeout.
setMappedData(c, data) ==
    [c EXCEPT !.mappedData = data,
              !.timers = IF Len(data) > 0 THEN Append(c.timers, data) ELSE c.timers,
              !.validationDue = Len(data) > 0 \/ c.validationDue,
              !.edits = c.edits + 1]

\* The user commits a cell of the grid.
UpdateCell(rowId, field, value) ==
    /\ client.edits < MaxEdits
    /\ rowId \in 1..Len(client.mappedData)
    /\ client' = setMappedData(client, updateCell(client.mappedData, rowId, field, value))
    /\ UNCHANGED <<storeVars, handler, netFaults, mapVars>>

\* The user presses a button of the fix toolbar.
ApplyFix(fixType, field) ==
    /\ client.edits < MaxEdits
    /\ client' = setMappedData(client, applyFix(client.mappedData, field, fixType))
    /\ UNCHANGED <<storeVars, handler, netFaults, mapVars>>

\* --------------------------------------------- client: the Coordinator
\* The rows handleSubmit keeps: the ids (in order) whose status in the
\* rendered rowStatuses is not 'invalid'.
ValidRows(data, statuses) ==
    SelectSeq([i \in 1..Len(data) |-> i], LAMBDA i : statuses[i] # "invalid")

\* validRows.slice(i, i + batchSize), as row ids.
Batch(validRows, i) ==
    SubSeq(validRows, i + 1, IF i + BatchSize < Len(validRows)
                             THEN i + BatchSize ELSE Len(validRows))

\* The request body row submitBatch builds from a CaseRow.
ToDto(row) ==
    DtoRow(row.case_id, row.applicant_name, row.dob, row.category,
           IF row.priority \in {"", Undefined} THEN "LOW" ELSE row.priority)

BatchDto(data, ids) == [n \in 1..Len(ids) |-> ToDto(data[ids[n]])]

\* Math.round((a / b) * 100)
Percent(a, b) == (200 * a + b) \div (2 * b)

\* The Submit button of ValidatePage.
SubmitEnabled == ~client.isSubmitting /\ Len(client.mappedData) > 0

\* handleSubmit up to the call of startImport, which posts /import/start.
\* With validation errors the user has to confirm.
Click(h) ==
    /\ SubmitEnabled
    /\ handler[h].pc = "idle"
    /\ \A t \in 1..(h - 1) : handler[t].pc # "idle"
    /\ handler' = [handler EXCEPT ![h] =
          [pc |-> "starting",
           total |-> Len(client.mappedData),
           data |-> client.mappedData,
           statuses |-> client.rowStatuses]]
    /\ UNCHANGED <<storeVars, client, netFaults, mapVars>>

\* The next iteration of the chunk loop of handleSubmit, at offset i:
\* submitBatch reads jobId from the store and posts the chunk, or the loop is
\* over.
LoopAt(hd, i, jobId) ==
    IF i < Len(hd.validRows)
    THEN [hd EXCEPT !.pc = "inflight", !.i = i, !.sentTo = jobId]
    ELSE [hd EXCEPT !.pc = "done", !.i = i]

\* /import/start returns: startImport sets the job, handleSubmit filters the
\* rows and sends the first chunk.
StartReturn(h) ==
    /\ handler[h].pc = "starting"
    /\ startImport(handler[h].total)
    /\ client' = [client EXCEPT !.jobId = Len(jobs) + 1, !.isSubmitting = TRUE,
                                !.progress = 0, !.successCount = 0,
                                !.failedCount = 0]
    /\ handler' = [handler EXCEPT ![h] =
          LoopAt([pc |-> "starting", job |-> Len(jobs) + 1, total |-> handler[h].total,
                  data |-> handler[h].data,
                  statuses |-> handler[h].statuses,
                  validRows |-> ValidRows(handler[h].data, handler[h].statuses),
                  i |-> 0, sentTo |-> 0],
                 0, Len(jobs) + 1)]
    /\ UNCHANGED <<netFaults, mapVars>>

\* /import/start fails: the catch block of handleSubmit.
StartFails(h) ==
    /\ handler[h].pc = "starting"
    /\ netFaults < MaxNetFaults
    /\ netFaults' = netFaults + 1
    /\ handler' = [handler EXCEPT ![h] = [pc |-> "failed"]]
    /\ UNCHANGED <<storeVars, client, mapVars>>

\* The store starts on the chunk of handler h; a refusal (404, 400) makes
\* the call throw into the catch block of handleSubmit.
ChunkArrives(h) ==
    /\ handler[h].pc = "inflight"
    /\ BatchBegin(h, handler[h].sentTo,
                  BatchDto(handler[h].data, Batch(handler[h].validRows, handler[h].i)),
                  handler[h].i)
    /\ handler' = [handler EXCEPT ![h].pc =
          IF BatchGuard(jobs, handler[h].sentTo) = "ok" THEN "inflight" ELSE "failed"]
    /\ UNCHANGED <<client, netFaults, mapVars>>

ChunkCreate(h) ==
    /\ handler[h].pc = "inflight"
    /\ BatchCreate(h)
    /\ UNCHANGED <<clientVars, mapVars>>

\* The continuation of submitBatch on the reply: row statuses and counters.
AfterBatch(c, ids, start, reply) ==
    [c EXCEPT
        !.rowStatuses = [id \in DOMAIN c.rowStatuses |->
            IF \E n \in 1..Len(ids) : ids[n] = id
            THEN RowStatusAfter(reply.errors, start,
                                (CHOOSE n \in 1..Len(ids) : ids[n] = id) - 1)
            ELSE c.rowStatuses[id]],
        !.successCount = c.successCount + reply.success,
        !.failedCount = c.failedCount + reply.failed,
        !.progress = Percent(start + Len(ids), Len(c.mappedData))]

\* The store commits the chunk and the reply reaches submitBatch, which
\* updates the session; handleSubmit goes on to the next chunk.
ChunkReturn(h) ==
    /\ handler[h].pc = "inflight"
    /\ BatchCommit(h)
    /\ client' = AfterBatch(client, Batch(handler[h].validRows, handler[h].i),
                            handler[h].i, req[h])
    /\ handler' = [handler EXCEPT ![h] =
          LoopAt(handler[h], handler[h].i + BatchSize, client.jobId)]
    /\ UNCHANGED <<netFaults, mapVars>>

\* The chunk call fails before it reaches the store: the catch block.
ChunkFails(h) ==
    /\ handler[h].pc = "inflight"
    /\ req[h].op = "none"
    /\ netFaults < MaxNetFaults
    /\ netFaults' = netFaults + 1
    /\ handler' = [handler EXCEPT ![h].pc = "failed"]
    /\ UNCHANGED <<storeVars, client, mapVars>>

\* ------------------------------------------------------- column mapping
\* Object.keys(SCHEMA_FIELDS), in order.
FieldOrder ==
    <<"case_id", "applicant_name", "dob", "email", "phone", "category", "priority">>

\* SCHEMA_FIELDS: label and aliases of each field.
SCHEMA_FIELDS ==
    [case_id |-> [label |-> "Case ID",
        aliases |-> <<"caseid", "case_number", "case_no", "id", "case",
                      "reference", "ref">>],
     applicant_name |-> [label |-> "Applicant Name",
        aliases |-> <<"name", "applicant", "full_name", "fullname", "person",
                      "client", "customer">>],
     dob |-> [label |-> "Date of Birth",
        aliases |-> <<"date_of_birth", "dateofbirth", "birth_date", "birthdate",
                      "birthday", "born">>],
     email |-> [label |-> "Email",
        aliases |-> <<"email_address", "emailaddress", "e-mail", "mail">>],
     phone |-> [label |-> "Phone",
        aliases |-> <<"phone_number", "phonenumber", "telephone", "tel", "mobile",
                      "cell", "contact">>],
     category |-> [label |-> "Category",
        aliases |-> <<"type", "case_type", "casetype", "cat", "classification">>],
     priority |-> [label |-> "Priority",
        aliases |-> <<"prio", "urgency", "importance", "level">>]]

\* One character through toLowerCase() and replace(/[^a-z0-9]/g, '').
NormalizeChar(c) ==
    IF IndexIn(UpperCase, c) > 0 THEN Char(LowerCase, IndexIn(UpperCase, c))
    ELSE IF IndexIn(LowerCase, c) > 0 \/ IndexIn(Digits, c) > 0 THEN c
    ELSE ""

RECURSIVE NormalizeFrom(_, _, _)
\* The characters lo..hi of str, each lowered or removed; the range is halved
\* so that the evaluation stays shallow.
NormalizeFrom(str, lo, hi) ==
    IF lo > hi THEN ""
    ELSE IF lo = hi THEN NormalizeChar(Char(str, lo))
    ELSE LET mid == (lo + hi) \div 2
         IN NormalizeFrom(str, lo, mid) \o NormalizeFrom(str, mid + 1, hi)

\* str.toLowerCase().replace(/[^a-z0-9]/g, '')
Normalize(str) == NormalizeFrom(str, 1, Len(str))

Min3(x, y, z) == IF x <= y /\ x <= z THEN x ELSE IF y <= z THEN y ELSE z

\* One cell of row i of the matrix, appended to the columns filled so far
\* (`row`), given row i - 1 (`prev`, column j at position j + 1) and the
\* character bc = b.charAt(i - 1).
LevCell(prev, bc, a, row) ==
    LET j == Len(row)
    IN Append(row,
          IF bc = Char(a, j) THEN prev[j]
          ELSE Min3(prev[j] + 1, row[j] + 1, prev[j + 1] + 1))

RECURSIVE LevRow(_, _, _, _, _)
\* The inner loop, left to right, until column hi of the row is filled; `row`
\* holds the columns filled so far (the remaining range is halved so that the
\* evaluation stays shallow).
LevRow(prev, bc, a, row, hi) ==
    IF Len(row) > hi THEN row
    ELSE IF Len(row) = hi THEN LevCell(prev, bc, a, row)
    ELSE LevRow(prev, bc, a, LevRow(prev, bc, a, row, (Len(row) + hi) \div 2), hi)

RECURSIVE LevRows(_, _, _, _)
\* The outer loop, top to bottom, until row hi is filled; `prev` is the last
\* row filled so far and prev[1] its number.
LevRows(prev, a, b, hi) ==
    IF prev[1] >= hi THEN prev
    ELSE IF prev[1] + 1 = hi THEN LevRow(prev, Char(b, hi), a, <<hi>>, Len(a))
    ELSE LevRows(LevRows(prev, a, b, (prev[1] + 1 + hi) \div 2), a, b, hi)

\* levenshteinDistance(a, b) = matrix[b.length][a.length]
levenshteinDistance(a, b) ==
    LevRows([j \in 1..(Len(a) + 1) |-> j - 1], a, b, Len(b))[Len(a) + 1]

\* String.prototype.includes
Includes(str, part) ==
    \E k \in 0..(Len(str) - Len(part)) : SubSeq(str, k + 1, k + Len(part)) = part

\* A confidence is a fraction <<numerator, denominator>>.
Frac(n, d) == <<n, d>>
FracGt(x, y) == x[1] * y[2] > y[1] * x[2]
FracGe(x, y) == x[1] * y[2] >= y[1] * x[2]
FracEq(x, y) == x[1] * y[2] = y[1] * x[2]

MaxOf(x, y) == IF x > y THEN x ELSE y

\* similarity(str1, str2)
similarity(str1, str2) ==
    LET s1 == Normalize(str1)
        s2 == Normalize(str2)
        longer == IF Len(s1) > Len(s2) THEN s1 ELSE s2
        shorter == IF Len(s1) > Len(s2) THEN s2 ELSE s1
    IN IF s1 = s2 THEN Frac(1, 1)
       ELSE IF Len(longer) = 0 THEN Frac(1, 1)
       ELSE IF Includes(longer, shorter) \/ Includes(shorter, longer) THEN Frac(9, 10)
       ELSE Frac(MaxOf(Len(s1), Len(s2)) - levenshteinDistance(s1, s2),
                 MaxOf(Len(s1), Len(s2)))

\* The strings findBestMatch compares a header with for one field, in order:
\* the field name, the label, the aliases.
FieldStrings(field) ==
    <<field, SCHEMA_FIELDS[field].label>> \o SCHEMA_FIELDS[field].aliases

\* The match a comparison of findBestMatch keeps: a strictly higher similarity
\* replaces the best match so far.
Better(best, match) ==
    IF FracGt(match.confidence, best.confidence) THEN match ELSE best

RECURSIVE BestOfField(_, _, _, _)
\* The comparisons of findBestMatch for one field, strings lo..hi in order:
\* the first of the highest similarities above 0 (the range is halved so that
\* the evaluation stays shallow).
BestOfField(csvHeader, field, lo, hi) ==
    IF lo > hi THEN [field |-> "none", confidence |-> Frac(0, 1)]
    ELSE IF lo = hi
    THEN Better([field |-> "none", confidence |-> Frac(0, 1)],
                [field |-> field,
                 confidence |-> similarity(csvHeader, FieldStrings(field)[lo])])
    ELSE Better(BestOfField(csvHeader, field, lo, (lo + hi) \div 2),
                BestOfField(csvHeader, field, (lo + hi) \div 2 + 1, hi))

RECURSIVE BestOver(_, _, _, _)
\* The outer loop of findBestMatch over the fields lo..hi in order.
BestOver(csvHeader, fields, lo, hi) ==
    IF lo > hi THEN [field |-> "none", confidence |-> Frac(0, 1)]
    ELSE IF lo = hi
    THEN BestOfField(csvHeader, fields[lo], 1, Len(FieldStrings(fields[lo])))
    ELSE Better(BestOver(csvHeader, fields, lo, (lo + hi) \div 2),
                BestOver(csvHeader, fields, (lo + hi) \div 2 + 1, hi))

NoMatch == [field |-> "none", confidence |-> Frac(0, 1)]

\* The least confidence findBestMatch returns a match for: 0.6.
Threshold == Frac(3, 5)

\* findBestMatch(csvHeader, availableFields)
findBestMatch(csvHeader, availableFields) ==
    LET best == BestOver(csvHeader, availableFields, 1, Len(availableFields))
    IN IF FracGe(best.confidence, Threshold) THEN best ELSE NoMatch

\* The headers of the files.
HeaderPool == {"email", "e-mail", "emails", "Case ID", "name", "xyz"}

\* Object.keys(SCHEMA_FIELDS).filter((f) => !usedFields.has(f))
AvailableFields(usedFields) == SelectSeq(FieldOrder, LAMBDA f : f \notin usedFields)

\* findBestMatch of every header of the pool during the first pass, where
\* usedFields is still empty.
FirstPassMatch == [h \in HeaderPool |-> findBestMatch(h, AvailableFields({}))]

\* The first pass of autoMapColumns: one candidate per header.
FirstPass(csvHeaders) ==
    [i \in 1..Len(csvHeaders) |->
        [csvColumn |-> csvHeaders[i]] @@ FirstPassMatch[csvHeaders[i]]]

RECURSIVE InsertSorted(_, _)
\* Insert candidate c after the entries whose confidence is not lower (the
\* sort is stable).
InsertSorted(sorted, c) ==
    IF sorted = <<>> THEN <<c>>
    ELSE IF FracGt(c.confidence, Head(sorted).confidence)
    THEN <<c>> \o sorted
    ELSE <<Head(sorted)>> \o InsertSorted(Tail(sorted), c)

RECURSIVE SortFrom(_, _, _)
SortFrom(candidates, i, sorted) ==
    IF i > Len(candidates) THEN sorted
    ELSE SortFrom(candidates, i + 1, InsertSorted(sorted, candidates[i]))

\* [...candidates].sort((a, b) => b.confidence - a.confidence)
SortByConfidence(candidates) == SortFrom(candidates, 1, <<>>)

\* candidates.findIndex((c) => c.csvColumn === column)
FindIndex(candidates, column) ==
    CHOOSE i \in 1..Len(candidates) :
        /\ candidates[i].csvColumn = column
        /\ \A k \in 1..(i - 1) : candidates[k].csvColumn # column

\* One iteration of the assignment loop, on the state [used, candidates].
Assign(st, candidate) ==
    LET idx == FindIndex(st.candidates, candidate.csvColumn)
    IN IF candidate.field # "none" /\ candidate.field \notin st.used
       THEN [used |-> st.used \cup {candidate.field},
             candidates |-> [st.candidates EXCEPT ![idx] = candidate]]
       ELSE IF st.candidates[idx].field # "none" /\ st.candidates[idx].field \in st.used
       THEN [used |-> st.used,
             candidates |-> [st.candidates EXCEPT ![idx] =
                 [candidate EXCEPT !.field = "none", !.confidence = Frac(0, 1)]]]
       ELSE st

RECURSIVE AssignFrom(_, _, _)
AssignFrom(st, sorted, n) ==
    IF n > Len(sorted) THEN st
    ELSE AssignFrom(Assign(st, sorted[n]), sorted, n + 1)

\* The final loop of autoMapColumns: the ColumnMapping of one candidate.
Mapping(candidate, used) ==
    IF candidate.field # "none" /\ candidate.field \in used
    THEN [csvColumn |-> candidate.csvColumn, schemaField |-> candidate.field,
          confidence |-> candidate.confidence, isAutoMapped |-> TRUE]
    ELSE [csvColumn |-> candidate.csvColumn, schemaField |-> "none",
          confidence |-> Frac(0, 1), isAutoMapped |-> FALSE]

\* autoMapColumns(csvHeaders)
autoMapColumns(csvHeaders) ==
    LET candidates == FirstPass(csvHeaders)
        final == AssignFrom([used |-> {}, candidates |-> candidates],
                            SortByConfidence(candidates), 1)
    IN [i \in 1..Len(csvHeaders) |-> Mapping(final.candidates[i], final.used)]

\* The mount effect of ColumnMapper: autoMapColumns on the headers of the
\* parsed file.
AutoMap ==
    /\ ~mapper.mapped
    /\ mapper' = [mapper EXCEPT !.mappings = autoMapColumns(mapper.headers),
                                !.mapped = TRUE]
    /\ UNCHANGED <<storeVars, clientVars, scored>>

\* getMappedFields(): the fields some mapping holds.
MappedFields(mappings) ==
    {mappings[m].schemaField : m \in {k \in 1..Len(mappings) : mappings[k].schemaField # "none"}}

\* The options of the select of row m the user can choose: '' and every field
\* that is not disabled.
OptionEnabled(mappings, m, field) ==
    \/ field = "none"
    \/ ~(field \in MappedFields(mappings) /\ mappings[m].schemaField # field)

\* The updater of handleFieldChange(csvColumn, schemaField) on one mapping;
\* the value '' of the select is written "none".
ChangedMapping(m, csvColumn, schemaField) ==
    IF schemaField # "none" /\ m.schemaField = schemaField /\ m.csvColumn # csvColumn
    THEN [m EXCEPT !.schemaField = "none", !.confidence = Frac(0, 1),
                   !.isAutoMapped = FALSE]
    ELSE IF m.csvColumn = csvColumn
    THEN [m EXCEPT !.schemaField = schemaField,
                   !.confidence = IF schemaField = "none" THEN Frac(0, 1) ELSE Frac(1, 1),
                   !.isAutoMapped = FALSE]
    ELSE m

\* handleFieldChange(csvColumn, schemaField): prev.map(...)
handleFieldChange(prev, csvColumn, schemaField) ==
    [k \in 1..Len(prev) |-> ChangedMapping(prev[k], csvColumn, schemaField)]

\* The user chooses an option of the select of row m.
FieldChange(m, field) ==
    /\ mapper.mapped
    /\ m \in 1..Len(mapper.mappings)
    /\ OptionEnabled(mapper.mappings, m, field)
    /\ field # mapper.mappings[m].schemaField
    /\ mapper' = [mapper EXCEPT !.mappings =
          handleFieldChange(mapper.mappings, mapper.mappings[m].csvColumn, field)]
    /\ UNCHANGED <<storeVars, clientVars, scored>>

\* =============================================================== claims
\* The step produces the reply of an API call.
Replies == resp'.seq # resp.seq
BatchReplied == resp.op = "batch" /\ resp.outcome = "ok"

\* C3: after any accepted chunk commits on a job the ledger is their sum:
\* processedRows, successCount and failedCount are the totals of the accepted
\* chunks, lastProcessedIndex is the last index of the last accepted chunk,
\* and right after a commit the status is COMPLETED iff
\* processedRows >= totalRows, PROCESSING otherwise.
C3_LedgerIsSumOfCommits ==
    \A j \in 1..Len(jobs) :
        ghost[j].commits > 0 =>
            /\ jobs[j].processedRows = ghost[j].rows
            /\ jobs[j].successCount = ghost[j].success
            /\ jobs[j].failedCount = ghost[j].failed
            /\ jobs[j].lastProcessedIndex = ghost[j].last
            /\ ghost[j].lastOp = "commit" =>
                  jobs[j].status = IF jobs[j].processedRows >= jobs[j].totalRows
                                   THEN "COMPLETED" ELSE "PROCESSING"

\* C4: a job whose status is COMPLETED or FAILED never changes again, in
\* status or in any counter.
C4_TerminalJobsAreFrozen ==
    [][\A j \in 1..Len(jobs) :
          jobs[j].status \in {"COMPLETED", "FAILED"} => jobs'[j] = jobs[j]]_vars

\* C5: pauseImport succeeds only from PENDING or PROCESSING, resumeImport is
\* accepted only from PAUSED, and a call that fails leaves the jobs unchanged.
C5_PauseResumeOnlyFromApplicableStatus ==
    [][/\ (Replies /\ resp'.op = "pause" /\ resp'.outcome = "ok")
            => jobs[resp'.job].status \in {"PENDING", "PROCESSING"}
       /\ (\E s \in Slots : req[s].op = "none" /\ req'[s].op = "resume")
            => \E s \in Slots : req'[s].op = "resume"
                                 /\ jobs[req'[s].job].status = "PAUSED"
       /\ (Replies /\ resp'.op \in {"pause", "resume"}
             /\ resp'.outcome # "ok") => jobs' = jobs]_vars

\* C6: a chunk sent to an unknown job fails with NotFound and one sent to a
\* COMPLETED or FAILED job fails with InvalidState; the failing call leaves
\* every ledger, the case table and the audit log unchanged, and no chunk is
\* accepted for such a job.
C6_RejectedChunkChangesNothing ==
    [][/\ (Replies /\ resp'.op = "batch" /\ resp'.outcome # "ok") =>
            /\ jobs' = jobs /\ cases' = cases /\ audit' = audit
            /\ resp'.outcome =
                 IF resp'.job \notin 1..Len(jobs) THEN "NotFound" ELSE "InvalidState"
            /\ resp'.job \in 1..Len(jobs) =>
                 jobs[resp'.job].status \in {"COMPLETED", "FAILED"}
       /\ \A s \in Slots :
            (req[s].op = "none" /\ req'[s].op = "batch") =>
                /\ req'[s].job \in 1..Len(jobs)
                /\ jobs[req'[s].job].status \notin {"COMPLETED", "FAILED"}]_vars

\* C6 witness: a chunk was refused with InvalidState while cases are stored.
C6_Witness ==
    resp.op = "batch" /\ resp.outcome = "InvalidState" /\ Len(cases) > 0

NoTwoCasesShareAnId ==
    \A m, n \in 1..Len(cases) : m # n => cases[m].caseId # cases[n].caseId

DuplicateReported(c) ==
    \E n \in 1..Len(resp.errors) :
        resp.errors[n].caseId = c /\ resp.errors[n].error = "Duplicate case ID"

\* C8 as stated: no two persisted cases share a case identifier, and every
\* row of a committed chunk whose identifier was already stored creates no
\* record and is reported failed with the duplicate classification.
C8_StoredIdAlwaysReportedDuplicate ==
    /\ NoTwoCasesShareAnId
    /\ BatchReplied =>
         \A p \in 1..Len(resp.rows) :
            resp.rows[p].caseId \in resp.storedAtBegin =>
                /\ resp.startIndex + p - 1 \notin resp.created
                /\ resp.startIndex + p - 1 \in resp.rejected
                /\ DuplicateReported(resp.rows[p].caseId)

\* C8 amended: no two persisted cases share a case identifier; a row whose
\* identifier was already stored creates no record and is counted failed, and
\* it carries the duplicate classification whenever its create was refused by
\* the uniqueness check (a row failing the field validation first carries the
\* validation message).
C8_UniqueCaseIds ==
    /\ NoTwoCasesShareAnId
    /\ BatchReplied =>
         /\ resp.failed = Len(resp.errors)
         /\ \A p \in 1..Len(resp.rows) :
              resp.rows[p].caseId \in resp.storedAtBegin =>
                /\ resp.startIndex + p - 1 \notin resp.created
                /\ resp.startIndex + p - 1 \in resp.rejected
                /\ (resp.startIndex + p - 1 \in resp.unique
                      => DuplicateReported(resp.rows[p].caseId))
                /\ (StoreRowError(resp.rows[p]) # ""
                      => ~DuplicateReported(resp.rows[p].caseId)
                         \/ \E q \in 1..Len(resp.rows) :
                               q # p /\ resp.rows[q].caseId = resp.rows[p].caseId)

\* C8 witness: a committed chunk held a row that the uniqueness check refused.
C8_Witness ==
    /\ BatchReplied
    /\ resp.unique # {}
    /\ Len(cases) > 0

\* C9: after a chunk commit the client marks a row failed exactly when the
\* store counted that row failed: the indexes of the error list are the
\* absolute indexes of the rejected rows.
C9_ErrorIndexesAreTheRejectedRows ==
    BatchReplied =>
        \A i \in 0..(Len(resp.rows) - 1) :
            (RowStatusAfter(resp.errors, resp.startIndex, i) = "failed")
                <=> (resp.startIndex + i \in resp.rejected)

\* C1: once handleSubmit has created its job and its chunk loop has finished
\* with every chunk committed, the job's processedRows equals its totalRows
\* and its status is COMPLETED.  Stated for a single activation of Submit
\* that has sent at least one chunk.
C1_FinishedSubmissionCompletesJob ==
    \A h \in Slots :
        (/\ handler[h].pc = "done"
         /\ handler[h].i > 0
         /\ \A t \in Slots \ {h} : handler[t].pc = "idle") =>
            /\ jobs[handler[h].job].processedRows = jobs[handler[h].job].totalRows
            /\ jobs[handler[h].job].status = "COMPLETED"

\* C2: at no time are two chunk requests of the client outstanding.
C2_OneChunkOutstanding ==
    Cardinality({h \in Slots : handler[h].pc = "inflight"}) <= 1

\* C10: no two entries of an autoMapColumns result have the same non-null
\* schemaField.
C10_AutoMapFieldsAreUnique ==
    mapper.mapped =>
        \A m, n \in 1..Len(mapper.mappings) :
            (m # n /\ mapper.mappings[m].schemaField # "none")
                => mapper.mappings[m].schemaField # mapper.mappings[n].schemaField

\* No two mappings hold the same non-null schemaField.
FieldsUnique(mappings) ==
    \A m, n \in 1..Len(mappings) :
        (m # n /\ mappings[m].schemaField # "none")
            => mappings[m].schemaField # mappings[n].schemaField

\* C11: a user override (handleFieldChange) on mappings in which no two
\* columns hold the same field leaves mappings in which no two columns hold
\* the same field, and setting a column to none sets its confidence to 0.
C11_OverrideKeepsFieldsUnique ==
    [][(mapper.mapped /\ mapper'.mapped /\ FieldsUnique(mapper.mappings))
          => /\ FieldsUnique(mapper'.mappings)
             /\ \A m \in 1..Len(mapper'.mappings) :
                   mapper'.mappings[m].schemaField = "none"
                       => mapper'.mappings[m].confidence = Frac(0, 1)]_vars

\* The duplicate-within-file errors recorded for row i.
DuplicateErrors(errors, i) ==
    IF i \in DOMAIN errors
    THEN Cardinality({k \in 1..Len(errors[i]) :
                         errors[i][k].message = "Duplicate case ID in file"})
    ELSE 0

\* Row i carries a non-empty case identifier that an earlier row carries.
RepeatsEarlierId(rows, i) ==
    /\ rows[i].case_id # ""
    /\ \E k \in 1..(i - 1) : rows[k].case_id = rows[i].case_id

\* C12: after validateAllRows the first row with a given non-empty case
\* identifier has no duplicate-within-file error and every later row with
\* that identifier has exactly one, with or without other errors.
C12_DuplicateFlaggedOnLaterRowsOnly ==
    ~client.validationDue =>
        \A i \in 1..Len(client.mappedData) :
            DuplicateErrors(client.validationErrors, i)
                = IF RepeatsEarlierId(client.mappedData, i) THEN 1 ELSE 0

\* A validated file in which a row repeats an earlier identifier and has a
\* field error of its own, and so carries two errors or more.
C12_Witness ==
    /\ ~client.validationDue
    /\ \E i \in 1..Len(client.mappedData) :
          /\ RepeatsEarlierId(client.mappedData, i)
          /\ Len(validateRow(client.mappedData[i])) > 0
          /\ DuplicateErrors(client.validationErrors, i) = 1
          /\ Len(client.validationErrors[i]) > 1

\* C13: every chunk handleSubmit sends carries as startIndex the offset of
\* its first row in the full row set, and a finished loop that has sent a
\* chunk has sent ceil(N / BatchSize) of them, N the number of rows of the set.
C13_StartIndexIsOffsetInRowSet ==
    \A h \in Slots :
        /\ handler[h].pc = "inflight"
              => handler[h].i = handler[h].validRows[handler[h].i + 1] - 1
        /\ (handler[h].pc = "done" /\ handler[h].i > 0)
              => handler[h].i
                    = BatchSize * ((Len(handler[h].data) + BatchSize - 1) \div BatchSize)

\* A step in which pauseImport or resumeImport writes the job.
PauseOrResumeWrites ==
    \/ Replies /\ resp'.op = "pause"
    \/ \E s \in Slots : req[s].op = "resume" /\ req'[s].op = "none"

\* Every job is as before but for its status.
OnlyStatusChanges ==
    /\ Len(jobs') = Len(jobs)
    /\ \A j \in 1..Len(jobs) : jobs'[j] = [jobs[j] EXCEPT !.status = jobs'[j].status]

RowsAccounted(rp, cs) ==
    /\ rp.success + rp.failed = Len(rp.rows)
    /\ rp.failed = Cardinality(rp.rejected)
    /\ ChunkIndexes(rp) \ rp.rejected \subseteq rp.created
    /\ \A x \in rp.created : CaseIdStored(cs, rp.rows[x - rp.startIndex + 1].caseId)

\* C15: a rejected row never aborts the batch: in the reply of every accepted
\* chunk success + failed is the number of rows of the chunk, the rows not
\* rejected are persisted, and handleSubmit goes on to the next chunk, if
\* there is one, whatever the reply says.
C15_RejectedRowNeverAborts ==
    [][\A h \in Slots :
          (handler[h].pc = "inflight" /\ req[h].op = "batch" /\ req'[h].op = "none")
              => /\ resp'.outcome = "ok"
                 /\ RowsAccounted(resp', cases')
                 /\ handler'[h].i = handler[h].i + BatchSize
                 /\ handler'[h].pc =
                       IF handler[h].i + BatchSize < Len(handler[h].validRows)
                       THEN "inflight" ELSE "done"]_vars

\* A chunk with a persisted row and a rejected row has been committed and the
\* next chunk of the same activation is on its way.
C15_Witness ==
    /\ BatchReplied
    /\ resp.success > 0
    /\ resp.failed > 0
    /\ \E h \in Slots :
          /\ handler[h].pc = "inflight"
          /\ handler[h].i = resp.startIndex + BatchSize
          /\ handler[h].job = resp.job
          /\ \A t \in Slots \ {h} : handler[t].pc = "idle"

\* C16: similarity returns 1 when the normalized strings are identical, 1
\* when either of them is empty, otherwise 0.9 when one is a substring of the
\* other, otherwise 1 - distance / max length.
C16_SimilarityByCases ==
    scored.called =>
        LET s1 == Normalize(scored.str1)
            s2 == Normalize(scored.str2)
        IN FracEq(scored.value,
                  IF s1 = s2 THEN Frac(1, 1)
                  ELSE IF s1 = "" \/ s2 = "" THEN Frac(1, 1)
                  ELSE IF Includes(s1, s2) \/ Includes(s2, s1) THEN Frac(9, 10)
                  ELSE Frac(MaxOf(Len(s1), Len(s2)) - levenshteinDistance(s1, s2),
                            MaxOf(Len(s1), Len(s2))))

\* The errors recorded for row i on field f.
ErrorsOn(errors, i, f) ==
    IF i \in DOMAIN errors
    THEN {k \in 1..Len(errors[i]) : errors[i][k].field = f}
    ELSE {}

\* C17: after validation a row whose priority is absent or empty has no
\* ValidationError on field priority.
C17_EmptyPriorityIsNoError ==
    ~client.validationDue =>
        \A i \in 1..Len(client.mappedData) :
            client.mappedData[i].priority \in {"", Undefined}
                => ErrorsOn(client.validationErrors, i, "priority") = {}

\* The string is empty or consists of whitespace only.
IsBlank(str) == \A k \in 1..Len(str) : Char(str, k) \in WhiteSpace

\* C18: after validation a row whose case_id, applicant_name or category is
\* empty or whitespace only has a ValidationError on that field.
C18_BlankRequiredFieldIsError ==
    ~client.validationDue =>
        \A i \in 1..Len(client.mappedData) :
            \A f \in {"case_id", "applicant_name", "category"} :
                IsBlank(client.mappedData[i][f])
                    => ErrorsOn(client.validationErrors, i, f) # {}

\* Row i carries suggestion sg on field f.
CarriesSuggestion(errors, i, f, sg) ==
    \E k \in ErrorsOn(errors, i, f) : errors[i][k].suggestion = sg

\* C19: after validation a row without errors and with a case identifier
\* that is not blank, whose applicant_name has
\* doubled spaces carries the collapsed and trimmed name as suggestion, and
\* one whose phone is a bare 10-digit number carries '+91' and the digits.
C19_SuggestionsWithoutErrors ==
    ~client.validationDue =>
        \A i \in 1..Len(client.mappedData) :
            LET row == client.mappedData[i] IN
            (i \notin DOMAIN client.validationErrors /\ ~IsBlank(row.case_id)) =>
                /\ HasDoubleSpace(row.applicant_name)
                      => CarriesSuggestion(client.validationErrors, i, "applicant_name",
                                           Trim(CollapseFrom(row.applicant_name, 1, Len(row.applicant_name))))
                /\ (Len(row.phone) = 10 /\ AllDigits(row.phone))
                      => CarriesSuggestion(client.validationErrors, i, "phone",
                                           "+91" \o row.phone)

\* C20: when a chunk that was in flight while its job was paused, and that
\* does not complete the job, commits as the only call in progress on the
\* job, the chunk's rows are counted in the ledger and the job is PAUSED.
C20_PauseSurvivesInFlightChunk ==
    [][\A s \in Slots :
          (/\ req[s].op = "batch"
           /\ req'[s].op = "none"
           /\ req[s].snap.status # "PAUSED"
           /\ jobs[req[s].job].status = "PAUSED"
           /\ \A t \in Slots \ {s} : req[t].op = "none"
           /\ jobs[req[s].job].processedRows + Len(req[s].rows)
                 < jobs[req[s].job].totalRows)
              => /\ jobs'[req[s].job].processedRows
                       = jobs[req[s].job].processedRows + Len(req[s].rows)
                 /\ jobs'[req[s].job].status = "PAUSED"]_vars

\* C7: within one job no row index is processed twice: every chunk the store
\* commits after the first starts at the ledger's lastProcessedIndex + 1.
C7_NoIndexProcessedTwice ==
    \A j \in 1..Len(jobs) : ~ghost[j].twice /\ ~ghost[j].gap

\* The headers (by position) whose first-pass proposal is field f.
Proposers(csvHeaders, f) ==
    {i \in 1..Len(csvHeaders) : FirstPassMatch[csvHeaders[i]].field = f}

\* The proposer of f with the highest confidence, the earliest of them in
\* input order.
Winner(csvHeaders, f) ==
    CHOOSE w \in Proposers(csvHeaders, f) :
        \A i \in Proposers(csvHeaders, f) \ {w} :
            \/ FracGt(FirstPassMatch[csvHeaders[w]].confidence,
                      FirstPassMatch[csvHeaders[i]].confidence)
            \/ /\ FracEq(FirstPassMatch[csvHeaders[w]].confidence,
                         FirstPassMatch[csvHeaders[i]].confidence)
               /\ w < i

\* Field f, proposed by several headers, is committed to the winner and every
\* other proposer is unmapped.
CommittedToWinner(csvHeaders, mappings, f) ==
    \A i \in Proposers(csvHeaders, f) :
        IF i = Winner(csvHeaders, f)
        THEN /\ mappings[i].schemaField = f
             /\ FracEq(mappings[i].confidence, FirstPassMatch[csvHeaders[i]].confidence)
             /\ mappings[i].isAutoMapped
        ELSE /\ mappings[i].schemaField = "none"
             /\ FracEq(mappings[i].confidence, Frac(0, 1))
             /\ ~mappings[i].isAutoMapped

\* C25: when several headers propose the same schema field in autoMap, the
\* field is committed to the proposal with the highest confidence (the
\* earliest header when confidences are equal) and every other such header is
\* returned with schemaField none, confidence 0 and not auto-assigned.
C25_ConflictGoesToBestProposal ==
    [][(~mapper.mapped /\ mapper'.mapped) =>
          \A f \in {FieldOrder[n] : n \in 1..Len(FieldOrder)} :
              Cardinality(Proposers(mapper.headers, f)) >= 2
                 => CommittedToWinner(mapper.headers, mapper'.mappings, f)]_vars

\* The step is a validation pass set off by an edit: the last pending timeout
\* callback runs, after at least one edit.
RevalidationPass ==
    /\ client.edits > 0
    /\ Len(client.timers) = 1
    /\ client'.timers = <<>>

Submitted == {"submitting", "success", "failed"}

\* C21: a revalidation pass never changes the status of a row that is
\* submitting, success or failed; the rows it changes become valid or invalid.
C21_RevalidationKeepsSubmittedRows ==
    [][RevalidationPass =>
          \A i \in DOMAIN client.rowStatuses :
              /\ client.rowStatuses[i] \in Submitted
                    => client'.rowStatuses[i] = client.rowStatuses[i]
              /\ client'.rowStatuses[i] # client.rowStatuses[i]
                    => client'.rowStatuses[i] \in {"valid", "invalid"}]_vars

\* The row transition graph: revalidation moves a row between pending, valid
\* and invalid, submission start moves valid to submitting, a chunk result
\* moves submitting to success or failed.
GraphEdge(from, to) ==
    \/ from \in {"pending", "valid", "invalid"} /\ to \in {"valid", "invalid"}
    \/ from = "valid" /\ to = "submitting"
    \/ from = "submitting" /\ to \in {"success", "failed"}

\* C22: every status change of a row follows the row transition graph; in
\* particular a row reaches success or failed only from submitting and does
\* not leave success or failed.  Stated for the steps taken while no
\* validation pass is pending.
C22_StatusChangesFollowGraph ==
    [][~client.validationDue =>
          \A i \in DOMAIN client.rowStatuses :
              client'.rowStatuses[i] # client.rowStatuses[i]
                 => GraphEdge(client.rowStatuses[i], client'.rowStatuses[i])]_vars

\* The row ids of the chunk handler h has sent and not yet got the reply for.
ChunkInFlight(h) == Batch(handler[h].validRows, handler[h].i)

\* C23: every row sent to the store in a chunk had status valid when the
\* submission started (in the rowStatuses handleSubmit was rendered with).
C23_OnlyValidRowsAreSent ==
    \A h \in Slots :
        handler[h].pc = "inflight" =>
            \A n \in 1..Len(ChunkInFlight(h)) :
                handler[h].statuses[ChunkInFlight(h)[n]] = "valid"

\* C24: when a chunk call fails, every row of the chunk ends with status
\* failed and the failed count grows by the size of the chunk.
C24_FailedChunkMarksRowsFailed ==
    [][\A h \in Slots :
          (handler[h].pc = "inflight" /\ handler'[h].pc = "failed") =>
              /\ \A n \in 1..Len(ChunkInFlight(h)) :
                    client'.rowStatuses[ChunkInFlight(h)[n]] = "failed"
              /\ client'.failedCount = client.failedCount + Len(ChunkInFlight(h))]_vars

\* C26: when a submission starts, a row whose status is valid has no error
\* in validateAllRows of the dataset the submission starts with.
C26_StatusAgreesWithDataAtSubmit ==
    \A h \in Slots :
        handler[h].pc = "starting" =>
            \A i \in 1..Len(handler[h].data) :
                handler[h].statuses[i] = "valid"
                   => i \notin DOMAIN validateAllRows(handler[h].data)

\* C28: after handleSubmit has finished, with the last chunk committed or
\* aborted by an error, isSubmitting eventually becomes false.
C28_SubmittingEventuallyEnds ==
    (\/ handler[1].pc = "done" /\ handler[1].i > 0
     \/ handler[1].pc = "failed" /\ client.isSubmitting) ~> ~client.isSubmitting

\* C27: in every state of a job ledger successCount + failedCount equals
\* processedRows, and the number of accumulated error records equals
\* failedCount.
C27_LedgerBalanced ==
    \A j \in 1..Len(jobs) :
        /\ jobs[j].successCount + jobs[j].failedCount = jobs[j].processedRows
        /\ Len(jobs[j].errorData) = jobs[j].failedCount

\* Two chunks have committed on a job whose ledger counts rows created and
\* rows failed.
C27_Witness ==
    \E j \in 1..Len(jobs) :
        /\ ghost[j].commits >= 2
        /\ jobs[j].successCount > 0
        /\ jobs[j].failedCount > 0

\* The case records created under job j.
CasesOf(j) == {n \in 1..Len(cases) : cases[n].importJobId = j}

\* C29: a row a chunk's reply reports as failed has no case record written
\* by that chunk, and the successCount of a job no call is in progress on,
\* with no commit lost, is the number of case records created under it.
C29_FailedRowHasNoCase ==
    /\ BatchReplied => resp.rejected \cap resp.created = {}
    /\ \A j \in 1..Len(jobs) :
          (/\ \A s \in Slots : req[s].op = "batch" => req[s].job # j
           /\ jobs[j].successCount = ghost[j].success)
             => jobs[j].successCount = Cardinality(CasesOf(j))

\* getJobStatus: the progress it reports for a job.
Progress(job) ==
    IF job.totalRows > 0 THEN Percent(job.processedRows, job.totalRows) ELSE 0

\* C30: in every state of a job ledger processedRows <= totalRows, and the
\* progress getJobStatus reports is between 0 and 100.
C30_ProcessedWithinTotal ==
    \A j \in 1..Len(jobs) :
        /\ jobs[j].processedRows <= jobs[j].totalRows
        /\ Progress(jobs[j]) \in 0..100

\* ------------------------------------------------------ the store alone
\* The HTTP API under any callers; the client session is not involved.
Next ==
    \/ \E total \in 1..MaxTotal :
          calls < MaxCalls /\ startImport(total) /\ UNCHANGED <<clientVars, mapVars>>
    \/ \E s \in Slots, jid \in CallIds, rows \in Chunks, start \in 0..MaxStart :
          /\ calls < MaxCalls /\ FreeSlot(s) /\ BatchBegin(s, jid, rows, start)
          /\ UNCHANGED <<clientVars, mapVars>>
    \/ \E s \in Slots : BatchCreate(s) /\ UNCHANGED <<clientVars, mapVars>>
    \/ \E s \in Slots : BatchCommit(s) /\ UNCHANGED <<clientVars, mapVars>>
    \/ \E jid \in CallIds :
          calls < MaxCalls /\ pauseImport(jid) /\ UNCHANGED <<clientVars, mapVars>>
    \/ \E s \in Slots, jid \in CallIds :
          /\ calls < MaxCalls /\ FreeSlot(s) /\ ResumeBegin(s, jid)
          /\ UNCHANGED <<clientVars, mapVars>>
    \/ \E s \in Slots : ResumeWrite(s) /\ UNCHANGED <<clientVars, mapVars>>

Spec == Init /\ [][Next]_vars

\* ------------------------------------------ the client and the store
\* ValidatePage after an upload: the rows are loaded, all pending, and the
\* first validation pass is scheduled.
InitClient ==
    /\ StoreInit
    /\ \E data \in Datasets : client = InitialClient(data)
    /\ handler = [s \in Slots |-> IdleHandler]
    /\ netFaults = 0
    /\ mapper = NoMapper
    /\ scored = NoScore

NextClient ==
    \/ RunValidation
    \/ \E h \in Slots : Click(h)
    \/ \E h \in Slots : StartReturn(h)
    \/ \E h \in Slots : StartFails(h)
    \/ \E h \in Slots : ChunkArrives(h)
    \/ \E h \in Slots : ChunkCreate(h)
    \/ \E h \in Slots : ChunkReturn(h)
    \/ \E h \in Slots : ChunkFails(h)

SpecClient == InitClient /\ [][NextClient]_vars

\* --------------------------------------------- the client with edits
\* A row the defaultPriority fix repairs.
CRowLow == CaseRow("C-4", "Di", "1990-01-01", "TAX", "low")

\* The files of the sessions with edits.
EditedFiles == {<<CRowAnn, CRowLow>>, <<CRowAnn, CRowBob, CRowLow>>}

InitEdit ==
    /\ StoreInit
    /\ \E data \in EditedFiles : client = InitialClient(data)
    /\ handler = [s \in Slots |-> IdleHandler]
    /\ netFaults = 0
    /\ mapper = NoMapper
    /\ scored = NoScore

\* One submission (the first handler) and the user's edits at any time.
NextEdit ==
    \/ RunValidation
    \/ Click(1)
    \/ StartReturn(1)
    \/ StartFails(1)
    \/ ChunkArrives(1)
    \/ ChunkCreate(1)
    \/ ChunkReturn(1)
    \/ ChunkFails(1)
    \/ \E rowId \in 1..MaxRows, e \in CellEdits : UpdateCell(rowId, e[1], e[2])
    \/ \E fix \in QuickFixes : ApplyFix(fix[1], fix[2])

SpecEdit == InitEdit /\ [][NextEdit]_vars

\* The same sessions where what does not wait for the user goes on: timeout
\* callbacks run, calls reach the store, the store works them off and replies.
Progressing ==
    /\ WF_vars(RunValidation)
    /\ WF_vars(StartReturn(1))
    /\ WF_vars(ChunkArrives(1))
    /\ WF_vars(ChunkCreate(1))
    /\ WF_vars(ChunkReturn(1))

SpecEditLive == InitEdit /\ [][NextEdit]_vars /\ Progressing

\* ----------------------------------------------------- the column mapper
\* A file with any headers of the pool has been parsed.
InitMap ==
    /\ StoreInit
    /\ client = InitialClient(<<>>)
    /\ handler = [s \in Slots |-> IdleHandler]
    /\ netFaults = 0
    /\ \E hs \in SeqsUpTo(HeaderPool, MaxHeaders) :
          mapper = [headers |-> hs, mappings |-> <<>>, mapped |-> FALSE]
    /\ scored = NoScore

NextMap ==
    \/ AutoMap
    \/ \E m \in 1..MaxHeaders, field \in {"none"} \cup {FieldOrder[f] : f \in 1..Len(FieldOrder)} :
          FieldChange(m, field)

SpecMap == InitMap /\ [][NextMap]_vars

\* ------------------------------------------------------- the validator
\* The cell values of the rows under validation: what parseCSV delivers and
\* what the user types into a cell of the grid.
CaseIdValues == {"", " ", "C-1001"}
NameValues == {"", " ", "John  Doe", "Ann"}
DobValues == {"1990-01-01", "2099-01-01"}
EmailValues == {"", "john@example.com", "john@example"}
PhoneValues == {"", "9876543210", "12-ab"}
CategoryValues == {"TAX", "tax", "", " "}
PriorityValues == {"", Undefined, "LOW", "low"}

SingleRows ==
    {CaseRowOf(c, n, d, e, ph, g, p) :
        c \in CaseIdValues, n \in NameValues, d \in DobValues, e \in EmailValues,
        ph \in PhoneValues, g \in CategoryValues, p \in PriorityValues}

\* Rows for files of several rows: identifiers that repeat, with and without
\* field errors of their own, and rows without an identifier.
CRowNoId == CaseRow("", "Dee", "1990-01-01", "TAX", "LOW")

FilePool == {CRowAnn, CRowTax, CRowNoId, CaseRow("C-1", "", "2099-01-01", "TAX", "LOW")}

\* ValidatePage with a file loaded and the validation pass scheduled.
InitValidate ==
    /\ StoreInit
    /\ handler = [s \in Slots |-> IdleHandler]
    /\ netFaults = 0
    /\ mapper = NoMapper
    /\ scored = NoScore
    /\ \E data \in {<<r>> : r \in SingleRows} \cup SeqsUpTo(FilePool, MaxRows) :
          client = InitialClient(data)

NextValidate == RunValidation

SpecValidate == InitValidate /\ [][NextValidate]_vars

\* ------------------------------------------------------------ similarity
\* The strings similarity is called with: headers as they stand in files and
\* the names, labels and aliases of the schema.
ComparedStrings ==
    {"", "#", "id", "ID", "email", "e-mail", "Email", "mail", "email_address",
     "phone", "xyz"}

InitSimilarity ==
    /\ StoreInit
    /\ client = InitialClient(<<>>)
    /\ handler = [s \in Slots |-> IdleHandler]
    /\ netFaults = 0
    /\ mapper = NoMapper
    /\ \E a \in ComparedStrings, b \in ComparedStrings :
          scored = [called |-> FALSE, str1 |-> a, str2 |-> b]

\* One call of similarity(str1, str2).
Similarity ==
    /\ ~scored.called
    /\ scored' = [called |-> TRUE, str1 |-> scored.str1, str2 |-> scored.str2,
                  value |-> similarity(scored.str1, scored.str2)]
    /\ UNCHANGED <<storeVars, clientVars, mapper>>

NextSimilarity == Similarity

SpecSimilarity == InitSimilarity /\ [][NextSimilarity]_vars
====
